---- MODULE Spec2Model ----
(***************************************************************************)
(* Model of library_manager.py: the sqlite store (tables users and books   *)
(* of library.db), the store functions, and the streamlit shell that       *)
(* drives them (login_page, main_app, the module-level dispatch).          *)
(*                                                                         *)
(* A Python str is a sequence of one-character strings, so that lower()    *)
(* and the substring test `in` are computed, not assumed.  A row of books  *)
(* is the tuple (id, title, author, category) that SELECT * yields; a row  *)
(* of users is the tuple (username, password).                             *)
(***************************************************************************)
EXTENDS Integers, Sequences, FiniteSets, TLC

VARIABLES tables, users, books, seq, session, pc, last, assigned

vars == <<tables, users, books, seq, session, pc, last, assigned>>

-----------------------------------------------------------------------------
(* Bounds of the model *)

\* add_book is not taken once this many ids have been assigned
MaxId == 2

\* register_user is not taken once users holds this many rows
MaxUsers == 2

-----------------------------------------------------------------------------
(* Python strings *)

UpperToLower ==
    [c \in {"A", "B", "C", "F", "N", "O", "P", "R", "X"} |->
        CASE c = "A" -> "a" [] c = "B" -> "b" [] c = "C" -> "c"
          [] c = "F" -> "f" [] c = "N" -> "n" [] c = "O" -> "o"
          [] c = "P" -> "p" [] c = "R" -> "r" [] c = "X" -> "x"]

\* str.lower(): upper-case letters are folded, every other character is kept
lower(s) ==
    [i \in 1..Len(s) |->
        IF s[i] \in DOMAIN UpperToLower THEN UpperToLower[s[i]] ELSE s[i]]

\* Python's `q in s` on strings: q occurs as a contiguous substring of s
IsSubstring(q, s) ==
    \E i \in 0..(Len(s) - Len(q)) : SubSeq(s, i + 1, i + Len(q)) = q

\* Python truthiness of a str
Truthy(s) == Len(s) > 0

EmptyStr == << >>

Fiction == <<"F", "i", "c", "t", "i", "o", "n">>
NonFiction == <<"N", "o", "n", "-", "f", "i", "c", "t", "i", "o", "n">>
Academic == <<"A", "c", "a", "d", "e", "m", "i", "c">>
Religious == <<"R", "e", "l", "i", "g", "i", "o", "u", "s">>
Other == <<"O", "t", "h", "e", "r">>

CATEGORIES == <<Fiction, NonFiction, Academic, Religious, Other>>

\* the default and sentinel value of get_books' filter_cat
All == <<"A", "l", "l">>

CategorySet == {CATEGORIES[i] : i \in 1..Len(CATEGORIES)}

-----------------------------------------------------------------------------
(* The database *)

\* columns of books in CREATE TABLE order; SELECT * yields them in this order
BookColumns == <<"id", "title", "author", "category">>

\* book[k] in the Python code, k counted from 0
Col(row, k) == row[k + 1]

\* the value of a named column of a row of books
Field(row, name) ==
    row[CHOOSE i \in 1..Len(BookColumns) : BookColumns[i] = name]

None == "None"

Call(op, args, ret) == [op |-> op, args |-> args, ret |-> ret]

SeqMax(s) ==
    IF s = << >> THEN 0
    ELSE CHOOSE m \in {s[i][1] : i \in 1..Len(s)} :
            \A i \in 1..Len(s) : s[i][1] <= m

\* INTEGER PRIMARY KEY without AUTOINCREMENT: one more than the largest rowid
\* the table holds now
NextRowid_NoAutoincrement == SeqMax(books) + 1

\* INTEGER PRIMARY KEY AUTOINCREMENT: one more than the largest rowid the
\* table has ever held (sqlite_sequence), not merely the largest it holds now
NextRowid == (IF seq > SeqMax(books) THEN seq ELSE SeqMax(books)) + 1

Connected == tables = {"users", "books"}

\* the variables that make up library.db
db == <<tables, users, books, seq, assigned>>

Init ==
    /\ tables = {}
    /\ users = << >>
    /\ books = << >>
    /\ seq = 0
    /\ assigned = {}
    /\ session = << >>
    /\ pc = "api"
    /\ last = Call("start", << >>, None)

\* DROP TABLE IF EXISTS then CREATE TABLE: both tables are made anew
init_db_Recreate ==
    /\ tables' = {"users", "books"}
    /\ users' = << >>
    /\ books' = << >>
    /\ seq' = 0
    /\ UNCHANGED assigned

\* CREATE TABLE IF NOT EXISTS for both tables, then commit; rows are kept
init_db ==
    /\ tables' = tables \cup {"users", "books"}
    /\ users' = (IF "users" \in tables THEN users ELSE << >>)
    /\ books' = (IF "books" \in tables THEN books ELSE << >>)
    /\ seq' = (IF "books" \in tables THEN seq ELSE 0)
    /\ UNCHANGED assigned

\* true when exactly one row matches
validate_user_ExactlyOne(username, password) ==
    LET rows == SelectSeq(users, LAMBDA r : r[1] = username /\ r[2] = password)
    IN  Len(rows) = 1

\* SELECT * FROM users WHERE username=? AND password=? ; fetchone() is not None
validate_user(username, password) ==
    LET rows == SelectSeq(users, LAMBDA r : r[1] = username /\ r[2] = password)
    IN  IF rows = << >> THEN FALSE ELSE TRUE

\* INSERT INTO users VALUES (?, ?): no key, no uniqueness check
register_user(username, password) ==
    /\ Connected
    /\ Len(users) < MaxUsers
    /\ users' = Append(users, <<username, password>>)
    /\ UNCHANGED <<tables, books, seq, assigned>>

\* the parameters bound to the placeholders in the order (author, title, category)
add_book_SwappedParams(title, author, category) ==
    /\ Connected
    /\ seq < MaxId
    /\ books' = Append(books, <<NextRowid, author, title, category>>)
    /\ seq' = NextRowid
    /\ assigned' = assigned \cup {NextRowid}
    /\ UNCHANGED <<tables, users>>

\* INSERT INTO books (title, author, category): the store assigns the id
add_book(title, author, category) ==
    /\ Connected
    /\ seq < MaxId
    /\ books' = Append(books, <<NextRowid, title, author, category>>)
    /\ seq' = NextRowid
    /\ assigned' = assigned \cup {NextRowid}
    /\ UNCHANGED <<tables, users>>

\* UPDATE books SET title=?, author=?, category=? with the WHERE clause lost
edit_book_NoWhere(book_id, title, author, category) ==
    /\ Connected
    /\ books' = [i \in 1..Len(books) |->
                    <<Col(books[i], 0), title, author, category>>]
    /\ UNCHANGED <<tables, users, seq, assigned>>

\* UPDATE books SET title=?, author=?, category=? WHERE id=?
edit_book(book_id, title, author, category) ==
    /\ Connected
    /\ books' = [i \in 1..Len(books) |->
                    IF Col(books[i], 0) = book_id
                    THEN <<Col(books[i], 0), title, author, category>>
                    ELSE books[i]]
    /\ UNCHANGED <<tables, users, seq, assigned>>

\* DELETE FROM books WHERE id<=?
delete_book_UpTo(book_id) ==
    /\ Connected
    /\ books' = SelectSeq(books, LAMBDA r : Col(r, 0) > book_id)
    /\ UNCHANGED <<tables, users, seq, assigned>>

\* DELETE FROM books WHERE id=?
delete_book(book_id) ==
    /\ Connected
    /\ books' = SelectSeq(books, LAMBDA r : Col(r, 0) # book_id)
    /\ UNCHANGED <<tables, users, seq, assigned>>

\* WHERE category=? COLLATE NOCASE
get_books_NoCase(filter_cat) ==
    IF filter_cat = All
    THEN books
    ELSE SelectSeq(books, LAMBDA r : lower(Col(r, 3)) = lower(filter_cat))

\* SELECT * FROM books [WHERE category=?] ; fetchall()
get_books(filter_cat) ==
    IF filter_cat = All
    THEN books
    ELSE SelectSeq(books, LAMBDA r : Col(r, 3) = filter_cat)

\* the comprehension reading book[2] and book[3], author and category
search_books_AuthorOrCategory(query) ==
    SelectSeq(books, LAMBDA book :
        \/ IsSubstring(lower(query), lower(Col(book, 2)))
        \/ IsSubstring(lower(query), lower(Col(book, 3))))

\* [book for book in books
\*    if query.lower() in book[1].lower() or query.lower() in book[2].lower()]
search_books(query) ==
    SelectSeq(books, LAMBDA book :
        \/ IsSubstring(lower(query), lower(Col(book, 1)))
        \/ IsSubstring(lower(query), lower(Col(book, 2))))

-----------------------------------------------------------------------------
(* The store driven through its functions, outside the shell *)

\* a call of a store function by a caller that holds no session
ApiCall(op, args, ret) ==
    /\ pc = "api"
    /\ last' = Call(op, args, ret)
    /\ UNCHANGED <<session, pc>>

\* a call of a function that only reads (it needs the cursor init_db returns)
Read(op, args, ret) ==
    /\ Connected
    /\ UNCHANGED db
    /\ ApiCall(op, args, ret)

CallInitDb == init_db /\ ApiCall("init_db", << >>, None)

CallAddBook(t, a, c) == add_book(t, a, c) /\ ApiCall("add_book", <<t, a, c>>, None)

CallEditBook(i, t, a, c) ==
    edit_book(i, t, a, c) /\ ApiCall("edit_book", <<i, t, a, c>>, None)

CallDeleteBook(i) == delete_book(i) /\ ApiCall("delete_book", <<i>>, None)

CallGetBooks(f) == Read("get_books", <<f>>, get_books(f))

CallSearchBooks(q) == Read("search_books", <<q>>, search_books(q))

CallValidateUser(u, p) == Read("validate_user", <<u, p>>, validate_user(u, p))

CallRegisterUser(u, p) ==
    register_user(u, p) /\ ApiCall("register_user", <<u, p>>, None)

\* a category outside the fixed set, which the store accepts all the same
fiction == lower(Fiction)

BookIds == 1..(MaxId + 1)

(* Spec: add, edit, delete and list *)

Titles == {<<"F", "i">>, <<"x">>}
Authors == {<<"a", "C">>, <<"x">>}
Categories == {Fiction, fiction}

Next ==
    \/ CallInitDb
    \/ \E t \in Titles, a \in Authors, c \in Categories : CallAddBook(t, a, c)
    \/ \E i \in BookIds, t \in Titles, a \in Authors, c \in Categories :
          CallEditBook(i, t, a, c)
    \/ \E i \in BookIds : CallDeleteBook(i)
    \/ CallGetBooks(All)

Spec == Init /\ [][Next]_vars

(* QuerySpec: filter and search over tables of every category *)

QueryCategories == CategorySet \cup {fiction}
Filters == QueryCategories \cup {All}
Queries == {EmptyStr, <<"f", "i">>, <<"A", "C">>, <<"o", "T">>}

QueryNext ==
    \/ CallInitDb
    \/ \E t \in Titles, a \in Authors, c \in QueryCategories : CallAddBook(t, a, c)
    \/ \E f \in Filters : CallGetBooks(f)
    \/ \E q \in Queries : CallSearchBooks(q)

QuerySpec == Init /\ [][QueryNext]_vars

(* UserSpec: registration and credential check *)

Usernames == {EmptyStr, <<"a">>, <<"A">>}
Passwords == {<<"p">>, <<"P">>}

UserNext ==
    \/ CallInitDb
    \/ \E u \in Usernames, p \in Passwords : CallRegisterUser(u, p)
    \/ \E u \in Usernames, p \in Passwords : CallValidateUser(u, p)

UserSpec == Init /\ [][UserNext]_vars

-----------------------------------------------------------------------------
(* ShellSpec: the streamlit script.  Every interaction reruns the script   *)
(* from the top: the dispatch on session_state, init_db, then the handler  *)
(* of the one widget event that caused the rerun.                          *)

ShellInit ==
    /\ tables = {}
    /\ users = << >>
    /\ books = << >>
    /\ seq = 0
    /\ assigned = {}
    /\ session = << >>
    /\ pc = "run"
    /\ last = Call("start", << >>, None)

\* if "user" in st.session_state: main_app(st.session_state.user)
\* else: login_page()
Run ==
    /\ pc = "run"
    /\ pc' = (IF session # << >> THEN "main_app" ELSE "login_page")
    /\ last' = Call("run", << >>, None)
    /\ UNCHANGED <<db, session>>

\* conn, cur = init_db(), the first statement of main_app
MainAppInitDb ==
    /\ pc = "main_app"
    /\ init_db
    /\ pc' = "main_app_tabs"
    /\ last' = Call("init_db", << >>, None)
    /\ UNCHANGED session

\* conn, cur = init_db(), the first statement of login_page
LoginPageInitDb ==
    /\ pc = "login_page"
    /\ init_db
    /\ pc' = "login_page_tabs"
    /\ last' = Call("init_db", << >>, None)
    /\ UNCHANGED session

\* the Login button without the validate_user test
Login_NoCheck(user, pwd) ==
    /\ pc = "login_page_tabs"
    /\ Connected
    /\ session' = <<user>>
    /\ pc' = "run"
    /\ last' = Call("Login", <<user, pwd>>, validate_user(user, pwd))
    /\ UNCHANGED db

\* the Login button
Login(user, pwd) ==
    /\ pc = "login_page_tabs"
    /\ Connected
    /\ IF validate_user(user, pwd)
       THEN session' = <<user>>
       ELSE UNCHANGED session
    /\ pc' = "run"
    /\ last' = Call("Login", <<user, pwd>>, validate_user(user, pwd))
    /\ UNCHANGED db

\* the Register button
Register(new_user, new_pwd) ==
    /\ pc = "login_page_tabs"
    /\ IF Truthy(new_user) /\ Truthy(new_pwd)
       THEN register_user(new_user, new_pwd)
       ELSE UNCHANGED db
    /\ pc' = "run"
    /\ last' = Call("Register", <<new_user, new_pwd>>, None)
    /\ UNCHANGED session

\* the Add Book form; category comes from st.selectbox("Category", CATEGORIES)
AddBook(title, author, category) ==
    /\ pc = "main_app_tabs"
    /\ category \in CategorySet
    /\ IF Truthy(title) /\ Truthy(author) /\ Truthy(category)
       THEN add_book(title, author, category)
       ELSE UNCHANGED db
    /\ pc' = "run"
    /\ last' = Call("AddBook", <<title, author, category>>, None)
    /\ UNCHANGED session

\* the expander of the k-th book of get_books(cur) is drawn only if the
\* selectbox of every book before it, and its own, found book[3] in CATEGORIES
Drawn(k) ==
    /\ k \in 1..Len(get_books(All))
    /\ \A j \in 1..k : Col(get_books(All)[j], 3) \in CategorySet

\* the Save Changes button of the k-th book
SaveChanges(k, new_title, new_author, new_cat) ==
    /\ pc = "main_app_tabs"
    /\ Drawn(k)
    /\ new_cat \in CategorySet
    /\ edit_book(Col(get_books(All)[k], 0), new_title, new_author, new_cat)
    /\ pc' = "run"
    /\ last' = Call("SaveChanges",
                    <<Col(get_books(All)[k], 0), new_title, new_author, new_cat>>,
                    None)
    /\ UNCHANGED session

\* the Delete button of the k-th book
Delete(k) ==
    /\ pc = "main_app_tabs"
    /\ Drawn(k)
    /\ delete_book(Col(get_books(All)[k], 0))
    /\ pc' = "run"
    /\ last' = Call("Delete", <<Col(get_books(All)[k], 0)>>, None)
    /\ UNCHANGED session

\* the Search/Filter tab
\* filtered = search_books(cur, query) if query else get_books(cur, filter_cat)
Search(query, filter_cat) ==
    /\ pc = "main_app_tabs"
    /\ Connected
    /\ filter_cat \in CategorySet \cup {All}
    /\ pc' = "run"
    /\ last' = Call("Search", <<query, filter_cat>>,
                    IF Truthy(query) THEN search_books(query)
                    ELSE get_books(filter_cat))
    /\ UNCHANGED <<db, session>>

ShellNames == {EmptyStr, <<"a">>, <<"A">>}
ShellPasswords == {EmptyStr, <<"p">>}
ShellTexts == {EmptyStr, <<"F", "i">>}
ShellCategories == {Fiction, Other}
ShellRows == 1..MaxId

ShellNext ==
    \/ Run
    \/ MainAppInitDb
    \/ LoginPageInitDb
    \/ \E u \in ShellNames, p \in ShellPasswords : Login(u, p)
    \/ \E u \in ShellNames, p \in ShellPasswords : Register(u, p)
    \/ \E t \in ShellTexts, a \in ShellTexts, c \in ShellCategories : AddBook(t, a, c)
    \/ \E k \in ShellRows, t \in ShellTexts, a \in ShellTexts, c \in ShellCategories :
          SaveChanges(k, t, a, c)
    \/ \E k \in ShellRows : Delete(k)
    \/ \E q \in ShellTexts, f \in {All, Fiction} : Search(q, f)

ShellSpec == ShellInit /\ [][ShellNext]_vars

-----------------------------------------------------------------------------
(* Properties *)

Ids(rows) == {Field(rows[i], "id") : i \in 1..Len(rows)}

\* s without its k-th element
Without(s, k) == SubSeq(s, 1, k - 1) \o SubSeq(s, k + 1, Len(s))

\* C1: add_book(t, a, c) followed by get_books("All") yields the previous
\* records unchanged plus exactly one new record, which carries (t, a, c) and
\* whose id was never assigned before.
C1_AddThenGetAll ==
    [][last'.op = "add_book" =>
        LET before == get_books(All)
            after == get_books(All)'
        IN  /\ Len(after) = Len(before) + 1
            /\ \E k \in 1..Len(after) :
                  /\ Without(after, k) = before
                  /\ Field(after[k], "title") = last'.args[1]
                  /\ Field(after[k], "author") = last'.args[2]
                  /\ Field(after[k], "category") = last'.args[3]
                  /\ Field(after[k], "id") \notin assigned
                  /\ Field(after[k], "id") \notin Ids(before)]_vars

\* an add_book has acted on a table that already held a record
C1_Witness ==
    /\ last.op = "add_book"
    /\ Len(get_books(All)) = 2
    /\ \E k \in 1..2 : /\ Field(books[k], "title") = last.args[1]
                       /\ Field(books[k], "author") = last.args[2]
                       /\ Field(books[k], "category") = last.args[3]

\* C2: book ids are never reused: an id that was assigned and is no longer in
\* the table (its book was deleted) is not in the table after any later call.
C2_IdsNeverReused ==
    [][\A i \in assigned : i \notin Ids(books) => i \notin Ids(books')]_vars

\* the book holding the highest id ever assigned was deleted, and the book
\* added after that did not get its id back
C2_Witness ==
    /\ last.op = "add_book"
    /\ seq \in Ids(books)
    /\ seq - 1 \in assigned
    /\ seq - 1 \notin Ids(books)

\* C3: edit_book(id, t2, a2, c2) replaces title, author and category of the
\* record with that id, keeps its id and its place, and leaves every other
\* record unchanged; when no record has that id the book set is unchanged.
C3_EditReplacesOne ==
    [][last'.op = "edit_book" =>
        LET before == get_books(All)
            after == get_books(All)'
            id == last'.args[1]
        IN  /\ Len(after) = Len(before)
            /\ \A k \in 1..Len(before) :
                  IF Field(before[k], "id") = id
                  THEN /\ Field(after[k], "id") = id
                       /\ Field(after[k], "title") = last'.args[2]
                       /\ Field(after[k], "author") = last'.args[3]
                       /\ Field(after[k], "category") = last'.args[4]
                  ELSE after[k] = before[k]
            /\ id \notin Ids(before) => after = before]_vars

\* an edit_book has acted on a present id, next to a record it left alone
C3_Witness ==
    /\ last.op = "edit_book"
    /\ Len(books) = 2
    /\ last.args[1] \in Ids(books)
    /\ \E k \in 1..2 : /\ Field(books[k], "id") # last.args[1]
                       /\ Field(books[k], "title") # last.args[2]
                       /\ Field(books[k], "category") # last.args[4]

\* C4: after delete_book(id) get_books("All") holds no record with that id
\* and every other record is unchanged; a second delete_book(id) leaves the
\* book set unchanged.
C4_DeleteRemovesOne ==
    [][last'.op = "delete_book" =>
        LET before == get_books(All)
            after == get_books(All)'
            id == last'.args[1]
        IN  /\ id \notin Ids(after)
            /\ IF id \in Ids(before)
               THEN \E k \in 1..Len(before) :
                       /\ Field(before[k], "id") = id
                       /\ after = Without(before, k)
               ELSE after = before
            /\ (last.op = "delete_book" /\ last.args = last'.args)
                  => after = before]_vars

\* a delete_book has removed a record and left another one in the table
C4_Witness ==
    /\ last.op = "delete_book"
    /\ last.args[1] \in assigned
    /\ last.args[1] \notin Ids(books)
    /\ Len(books) >= 1

\* ret holds exactly the rows of rows that satisfy P, once each, in their order
IsSelection(ret, rows, P(_)) ==
    LET keep == {k \in 1..Len(rows) : P(rows[k])}
    IN  /\ Len(ret) = Cardinality(keep)
        /\ \A j \in 1..Len(ret) :
              ret[j] = rows[CHOOSE k \in keep :
                               Cardinality({m \in keep : m <= k}) = j]

\* the lowercased q is a substring of the lowercased value of column name
Matches(q, row, name) == IsSubstring(lower(q), lower(Field(row, name)))

\* C5 as claimed: search_books(q) returns exactly the stored books for which
\* the lowercased q is a substring of the lowercased author or of the
\* lowercased category; the title is not matched.
C5_Original ==
    last.op = "search_books" =>
        LET InAuthorOrCategory(r) ==
                Matches(last.args[1], r, "author") \/ Matches(last.args[1], r, "category")
        IN  IsSelection(last.ret, books, InAuthorOrCategory)

\* C5 amended: search_books(q) returns exactly the stored books for which the
\* lowercased q is a substring of the lowercased title or of the lowercased
\* author; the category is not matched.
C5_SearchTitleOrAuthor ==
    last.op = "search_books" =>
        LET InTitleOrAuthor(r) ==
                Matches(last.args[1], r, "title") \/ Matches(last.args[1], r, "author")
        IN  IsSelection(last.ret, books, InTitleOrAuthor)

\* a search returned a book by its title alone and left out a book whose
\* category alone holds the query
C5_Witness ==
    /\ last.op = "search_books"
    /\ \E j \in 1..Len(last.ret) :
          /\ Matches(last.args[1], last.ret[j], "title")
          /\ ~Matches(last.args[1], last.ret[j], "author")
          /\ ~Matches(last.args[1], last.ret[j], "category")
    /\ \E k \in 1..Len(books) :
          /\ Matches(last.args[1], books[k], "category")
          /\ \A j \in 1..Len(last.ret) : last.ret[j] # books[k]

\* C6: for every category of the fixed set, get_books(category) returns
\* exactly the records of get_books("All") whose category equals it, and
\* get_books("All") returns every stored record.
C6_FilterByCategory ==
    last.op = "get_books" =>
        LET f == last.args[1]
            HasCategory(r) == Field(r, "category") = f
            Stored(r) == TRUE
        IN  /\ f \in CategorySet => IsSelection(last.ret, get_books(All), HasCategory)
            /\ f = All => IsSelection(last.ret, books, Stored)

\* a filter by a fixed category kept one record and dropped a record whose
\* category differs from it in letter case only
C6_Witness ==
    /\ last.op = "get_books"
    /\ last.args[1] = Fiction
    /\ Len(last.ret) = 1
    /\ \E k \in 1..Len(books) : Field(books[k], "category") = fiction

\* C7: validate_user(u, p) is true exactly when at least one row of users has
\* username u and password p, compared exactly: it is true when the pair was
\* registered twice and false when only a pair differing in case was.
C7_ValidateExactMatch ==
    last.op = "validate_user" =>
        (last.ret = TRUE <=>
            \E k \in 1..Len(users) : /\ users[k][1] = last.args[1]
                                     /\ users[k][2] = last.args[2])

\* the pair was registered twice and validate_user returned true for it
C7_Witness ==
    /\ last.op = "validate_user"
    /\ last.ret = TRUE
    /\ Len(users) = 2
    /\ users[1] = users[2]
    /\ users[1] = last.args

\* C8: init_db, run on every render of the login page and of the main app,
\* leaves the rows of users and books and the next id to assign unchanged.
C8_InitDbIdempotent ==
    [][last'.op = "init_db" =>
        /\ users' = users
        /\ books' = books
        /\ NextRowid' = NextRowid]_vars

\* init_db has run over a store that holds users and books
C8_Witness ==
    /\ last.op = "init_db"
    /\ pc = "main_app_tabs"
    /\ users # << >>
    /\ books # << >>
    /\ seq > Len(books)

\* C9: the session's user is set only by a Login whose validate_user returned
\* true, to the username given to it; main_app and every book add, edit,
\* delete and search run only while it is set; a failed login or a
\* registration leaves it alone.
C9_SessionSetOnlyByLogin ==
    /\ [](pc \in {"main_app", "main_app_tabs"} => session # << >>)
    /\ [](last.op \in {"AddBook", "SaveChanges", "Delete", "Search"} => session # << >>)
    /\ [][session' # session =>
            /\ last'.op = "Login"
            /\ validate_user(last'.args[1], last'.args[2])
            /\ session' = <<last'.args[1]>>]_vars
    /\ [][last'.op = "Register" => session' = session]_vars

\* the main app runs for the user named in a successful Login, who is not
\* the first user registered
C9_Witness ==
    /\ pc = "main_app_tabs"
    /\ session = << <<"A">> >>
    /\ Len(users) = 2
    /\ users[1][1] = <<"a">>

\* C10 as claimed: in every state reached through the shell every stored book
\* has a non-empty title, a non-empty author and a category of the fixed set.
C10_Original ==
    \A k \in 1..Len(books) :
        /\ Truthy(Field(books[k], "title"))
        /\ Truthy(Field(books[k], "author"))
        /\ Field(books[k], "category") \in CategorySet

====
